---- MODULE Spec2Model ----
(***************************************************************************)
(* Model of the hybrid recommendation pipeline (backend/hybrid_recommend.py)*)
(* and of the persistent reinforcement-learning agent (backend/rl_agent.py).*)
(*                                                                         *)
(* Numbers: the code computes with IEEE doubles.  The model keeps every    *)
(* score and Q-value on the grid 1/Unit and rounds each multiplication or  *)
(* division to the nearest grid point (RoundDiv).                          *)
(***************************************************************************)
EXTENDS Integers, Sequences, FiniteSets, TLC

\* ------------------------------------------------------------------ bounds
\* Largest number of recommendation requests started in a run.
MaxRequests == 1
\* Largest top_n a request asks for (top_n ranges over 0..MaxTopN).
MaxTopN == 2
\* Largest number of update_q_value calls made by callers that record feedback.
MaxFeedback == 2
\* Largest number of injected failures (a failed connect, load or save) in a run.
MaxFaults == 1

\* --------------------------------------------------------------- constants
\* One unit of score (1.0) on the fixed-point grid.
Unit == 100 * 1000
\* RLAgent() defaults: learning_rate = 0.01 = LrNum/LrDen, discount_factor = 0.9 = DfNum/DfDen.
LrNum == 1
LrDen == 100
DfNum == 9
DfDen == 10
\* cold-start threshold of hybrid_recommendation
ColdStartThreshold == 5
\* datetime.now().year
CurrentYear == 2026
\* recency window of apply_temporal_boost
RecentYears == 5

\* the process that serves recommendation requests, the process that records feedback
Requester == "requester"
Recorder == "recorder"
Procs == {Requester, Recorder}
Users == {1, 2}
MovieIds == {1, 2, 3}
Keys == Users \X MovieIds
\* messages taken from the stream in one run of process_stream
MaxMessages == 2
\* the feedback events a caller records: (user_id, movie_id, reward)
Feedbacks == {<< 2, 1, 1 >>, << 1, 2, -1 >>}

\* ----------------------------------------------------------------- helpers
RoundDiv(a, b) == (2 * a + b) \div (2 * b)

Min(a, b) == IF a <= b THEN a ELSE b

\* Python s[a:b] for 0 <= a, 0 <= b (1-based sequence, 0-based slice bounds)
PySlice(s, a, b) ==
  LET hi == Min(b, Len(s))
  IN IF a >= hi THEN << >> ELSE SubSeq(s, a + 1, hi)

\* list.insert keeping descending order of .score, after every element whose
\* score is >= x.score (what makes the sort stable)
RECURSIVE InsertDesc(_, _)
InsertDesc(x, s) ==
  IF s = << >> THEN << x >>
  ELSE IF Head(s).score >= x.score THEN << Head(s) >> \o InsertDesc(x, Tail(s))
  ELSE << x >> \o s

\* sorted(..., key=score, reverse=True) / list.sort(reverse=True): stable
RECURSIVE SortDescFrom(_, _)
SortDescFrom(s, acc) ==
  IF s = << >> THEN acc ELSE SortDescFrom(Tail(s), InsertDesc(Head(s), acc))

SortDesc(s) == SortDescFrom(s, << >>)

IsSortedDesc(s) == \A i \in 1..(Len(s) - 1) : s[i].score >= s[i + 1].score

SeqToSet(s) == {s[i] : i \in 1..Len(s)}

\* ------------------------------------------------------------ the RL agent
\* RLAgent.get_q_value: self.q_values.get((user_id, movie_id), 0.0)
get_q_value(q_values, k) == IF k \in DOMAIN q_values THEN q_values[k] ELSE 0

\* an update without the bootstrap term: current_q + lr * reward
NewQRewardOnly(lr_num, lr_den, df_num, df_den, current_q, reward, next_max) ==
  current_q + RoundDiv(lr_num * reward * Unit, lr_den)

\* new_q of RLAgent.update_q_value for an agent constructed with
\* learning_rate = lr_num / lr_den and discount_factor = df_num / df_den;
\* reward is in whole units, the rest on the grid
NewQWith(lr_num, lr_den, df_num, df_den, current_q, reward, next_max) ==
  current_q + RoundDiv(lr_num * (df_den * reward * Unit + df_num * next_max - df_den * current_q),
                       lr_den * df_den)

\* new_q of RLAgent.update_q_value for RLAgent(), the default rates
NewQ(current_q, reward, next_max) ==
  NewQWith(LrNum, LrDen, DfNum, DfDen, current_q, reward, next_max)

\* an assignment that leaves the one key in the memory
SetQAlone(q_values, k, v) == [x \in {k} |-> v]

\* self.q_values[(user_id, movie_id)] = new_q
SetQ(q_values, k, v) == [x \in (DOMAIN q_values) \cup {k} |-> IF x = k THEN v ELSE q_values[x]]

\* a write that replaces the table by the one row written
UpsertAlone(table, k, v) == [x \in {k} |-> v]

\* RLAgent._save_q_value, the statement that commits:
\* INSERT ... ON CONFLICT(user_id, movie_id) DO UPDATE SET q_value = excluded.q_value
Upsert(table, k, v) == [x \in (DOMAIN table) \cup {k} |-> IF x = k THEN v ELSE table[x]]

\* RLAgent._save_q_value: ok = FALSE is the except branch (logged, nothing written)
save_q_value(table, k, v, ok) == IF ok THEN Upsert(table, k, v) ELSE table

\* RLAgent._load_q_values: ok = FALSE is the except branch (logged, q_vals stays {})
EmptyQ == [k \in {} |-> 0]

load_q_values(table, ok) == IF ok THEN [k \in DOMAIN table |-> table[k]] ELSE EmptyQ

\* a next_max that ignores the stored values
MaxQZero(q_values, user_id, recs) == 0

\* max([get_q_value(user, m) for m, _ in recommendations], default=0)
RECURSIVE MaxQ(_, _, _)
MaxQ(q_values, user_id, recs) ==
  IF recs = << >> THEN 0
  ELSE LET h == get_q_value(q_values, << user_id, Head(recs).movie_id >>)
       IN IF Len(recs) = 1 THEN h
          ELSE LET t == MaxQ(q_values, user_id, Tail(recs))
               IN IF h >= t THEN h ELSE t

\* a blend with equal weights
AdjustedScoreEven(score, new_q) == RoundDiv(5 * score + 5 * new_q, 10)

\* adjusted_score = 0.7 * score + 0.3 * new_q
AdjustedScore(score, new_q) == RoundDiv(7 * score + 3 * new_q, 10)

\* feedback.get(movie_id, 0)
FeedbackGet(feedback, movie_id) == IF movie_id \in DOMAIN feedback THEN feedback[movie_id] ELSE 0

\* the loop of RLAgent.adjust_recommendations over the whole batch
RECURSIVE AdjustLoop(_, _, _, _, _, _)
AdjustLoop(q_values, user_id, recs, feedback, next_max, updated) ==
  IF recs = << >> THEN [q_values |-> q_values, updated |-> updated]
  ELSE LET r == Head(recs)
           k == << user_id, r.movie_id >>
           new_q == NewQ(get_q_value(q_values, k), FeedbackGet(feedback, r.movie_id), next_max)
       IN AdjustLoop(SetQ(q_values, k, new_q), user_id, Tail(recs), feedback, next_max,
                     Append(updated, [movie_id |-> r.movie_id,
                                      score |-> AdjustedScore(r.score, new_q)]))

\* RLAgent.adjust_recommendations: the agent's q_values afterwards and the list returned
adjust_recommendations(q_values, user_id, recs, feedback) ==
  LET a == AdjustLoop(q_values, user_id, recs, feedback, MaxQ(q_values, user_id, recs), << >>)
  IN [q_values |-> a.q_values, updated |-> SortDesc(a.updated)]

\* ------------------------------------------------------------- the catalog
\* A text field of u.item is a sequence of characters (whole words stand for
\* runs of letters); a missing field is read by pandas as NaN.
NaN == << "nan" >>

\* u.item as read by load_movies / _load_movies: movie_id, title, release_date, genres
CatalogA ==
  << [movie_id |-> 1, title |-> "T1", release_date |-> << "Jan", "-", "2", "0", "2", "4" >>,
      genres |-> << "Action" >>],
     [movie_id |-> 2, title |-> "T2", release_date |-> << "Jan", "-", "1", "9", "9", "5" >>,
      genres |-> << "Drama", " ", "|", " ", "Action" >>],
     [movie_id |-> 3, title |-> "T3", release_date |-> << "Jan", "-", "2", "0", "2", "1" >>,
      genres |-> << "Action", "|", "Action" >>] >>

\* the same file with a record whose release date and genres fields are empty
CatalogB ==
  << CatalogA[1], CatalogA[2],
     [movie_id |-> 3, title |-> "T3", release_date |-> NaN, genres |-> NaN] >>

\* a file whose genres fields are Action, Drama, Action
CatalogC ==
  << [CatalogA[1] EXCEPT !.genres = << "Action" >>],
     [CatalogA[2] EXCEPT !.genres = << "Drama" >>],
     [CatalogA[3] EXCEPT !.genres = << "Action" >>] >>

\* a file of two records, released six years ago and in a year that is no number
CatalogD ==
  << [CatalogA[1] EXCEPT !.release_date = << "Jan", "-", "2", "0", "2", "0" >>],
     [CatalogA[2] EXCEPT !.release_date = << "Jan", "-", "2", "0", "2", "x" >>] >>

\* HybridRecommender.movies["movie_id"]: the ids of the loaded file, in file order
movies == << 1, 2, 3 >>

\* HybridRecommender.ratings["user_id"]: one entry per rating row
ratings == << 1, 1, 1, 1, 2, 2, 2, 2, 2 >>

\* cosine similarity matrices (grid units), row/column = catalog position
SimA == << << Unit, 3 * (Unit \div 10), 6 * (Unit \div 10) >>,
           << 3 * (Unit \div 10), Unit, 6 * (Unit \div 10) >>,
           << 6 * (Unit \div 10), 6 * (Unit \div 10), Unit >> >>

\* two records with the same text: similarity 1.0 off the diagonal
SimB == << << Unit, Unit, 2 * (Unit \div 10) >>,
           << Unit, Unit, 2 * (Unit \div 10) >>,
           << 2 * (Unit \div 10), 2 * (Unit \div 10), Unit >> >>

\* the matrix of a catalog of two records
SimD == << << Unit, 5 * (Unit \div 10) >>,
           << 5 * (Unit \div 10), Unit >> >>

NoSim == << >>

\* prediction.est of the trained SVD model, per (user, movie), grid units
EstA == [k \in Keys |-> IF k[2] = 1 THEN 4 * Unit ELSE IF k[2] = 2 THEN 4 * Unit ELSE 5 * Unit]

\* load_model: the unpickled model, or None when the file is missing or unreadable
SvdLoaded == [loaded |-> TRUE, est |-> EstA]
SvdNone == [loaded |-> FALSE, est |-> [k \in Keys |-> 0]]

\* The states a HybridRecommender can be in after initialize_system
\* (svd_model, content_recommender).
Recommenders ==
  { << SvdLoaded, [movies |-> CatalogA, computed |-> TRUE, cosine_sim |-> SimA] >>,
    << SvdLoaded, [movies |-> CatalogB, computed |-> TRUE, cosine_sim |-> SimB] >>,
    << SvdNone, [movies |-> CatalogA, computed |-> TRUE, cosine_sim |-> SimA] >>,
    << SvdLoaded, [movies |-> CatalogA, computed |-> FALSE, cosine_sim |-> NoSim] >>,
    << SvdLoaded, [movies |-> << >>, computed |-> FALSE, cosine_sim |-> NoSim] >>,
    << SvdLoaded, [movies |-> CatalogD, computed |-> TRUE, cosine_sim |-> SimD] >> }

\* ContentBasedRecommender._get_movie_details
get_movie_details(movie) ==
  [movie_id |-> movie.movie_id, title |-> movie.title,
   release_date |-> movie.release_date, genres |-> movie.genres]

\* ContentBasedRecommender.get_movie_by_id: << >> is None, << d >> the details
get_movie_by_id(cr, movie_id) ==
  LET rows == {i \in 1..Len(cr.movies) : cr.movies[i].movie_id = movie_id}
  IN IF rows = {} THEN << >>
     ELSE << get_movie_details(cr.movies[CHOOSE i \in rows : \A j \in rows : i <= j]) >>

\* ContentBasedRecommender.get_similar_movies
get_similar_movies(cr, movie_id, top_n) ==
  IF ~cr.computed THEN << >>
  ELSE
    LET movie_indices == {i \in 1..Len(cr.movies) : cr.movies[i].movie_id = movie_id}
    IN IF movie_indices = {} THEN << >>
       ELSE
         LET movie_idx == CHOOSE i \in movie_indices : \A j \in movie_indices : i <= j
             sim_scores == [i \in 1..Len(cr.movies) |-> [idx |-> i, score |-> cr.cosine_sim[movie_idx][i]]]
             sliced == PySlice(SortDesc(sim_scores), 1, top_n + 1)
         IN [i \in 1..Len(sliced) |->
               [movie_id |-> cr.movies[sliced[i].idx].movie_id,
                title |-> cr.movies[sliced[i].idx].title,
                score |-> sliced[i].score]]

\* ------------------------------------------------------ the pipeline stages
Take(s, n) == PySlice(s, 0, n)

\* self.ratings[self.ratings["user_id"] == user_id].shape[0]
RatingCount(user_id) == Cardinality({i \in 1..Len(ratings) : ratings[i] = user_id})

\* HybridRecommender.get_cf_recommendations; raises = the movie ids for which
\* svd_model.predict raises in this call
get_cf_recommendations(svd, user_id, n, raises) ==
  IF ~svd.loaded THEN << >>
  ELSE IF \E i \in 1..Len(movies) : movies[i] \in raises THEN << >>
  ELSE Take(SortDesc([i \in 1..Len(movies) |->
                        [movie_id |-> movies[i], score |-> svd.est[<< user_id, movies[i] >>]]]),
            n * 2)

Digits == << "0", "1", "2", "3", "4", "5", "6", "7", "8", "9" >>
IsDigit(c) == \E i \in 1..10 : Digits[i] = c
DigitVal(c) == (CHOOSE i \in 1..10 : Digits[i] = c) - 1

RECURSIVE DigitsVal(_)
DigitsVal(s) == IF s = << >> THEN 0 ELSE 10 * DigitsVal(SubSeq(s, 1, Len(s) - 1)) + DigitVal(s[Len(s)])

RECURSIVE StripLeft(_)
StripLeft(s) == IF s # << >> /\ Head(s) = " " THEN StripLeft(Tail(s)) ELSE s

RECURSIVE StripRight(_)
StripRight(s) == IF s # << >> /\ s[Len(s)] = " " THEN StripRight(SubSeq(s, 1, Len(s) - 1)) ELSE s

Strip(s) == StripRight(StripLeft(s))

\* int(text): optional blanks around, an optional sign, then digits only.
\* << >> when int() raises ValueError, << n >> otherwise.
PyInt(text) ==
  LET t == Strip(text)
      signed == t # << >> /\ Head(t) \in {"+", "-"}
      body == IF signed THEN Tail(t) ELSE t
  IN IF body = << >> \/ \E i \in 1..Len(body) : ~IsDigit(body[i]) THEN << >>
     ELSE << (IF signed /\ Head(t) = "-" THEN -1 ELSE 1) * DigitsVal(body) >>

\* text[-4:]
Last4(text) == IF Len(text) <= 4 THEN text ELSE SubSeq(text, Len(text) - 3, Len(text))

\* a boost for movies released less than five years ago only
Boost10Strict(cr, movie_id) ==
  LET movie == get_movie_by_id(cr, movie_id)
  IN IF movie = << >> THEN 10
     ELSE IF movie[1].release_date = << >> THEN 10
     ELSE IF movie[1].release_date = NaN THEN 10
     ELSE LET y == PyInt(Last4(movie[1].release_date))
          IN IF y # << >> /\ CurrentYear - y[1] < RecentYears THEN 11 ELSE 10

\* the boost factor of apply_temporal_boost, in tenths (11 = 1.1, 10 = 1.0)
Boost10(cr, movie_id) ==
  LET movie == get_movie_by_id(cr, movie_id)
  IN IF movie = << >> THEN 10
     ELSE IF movie[1].release_date = << >> THEN 10
     ELSE IF movie[1].release_date = NaN THEN 10
     ELSE LET y == PyInt(Last4(movie[1].release_date))
          IN IF y # << >> /\ CurrentYear - y[1] <= RecentYears THEN 11 ELSE 10

\* HybridRecommender.apply_temporal_boost
apply_temporal_boost(cr, recommendations) ==
  [i \in 1..Len(recommendations) |->
     [movie_id |-> recommendations[i].movie_id,
      score |-> RoundDiv(recommendations[i].score * Boost10(cr, recommendations[i].movie_id), 10)]]

\* content_score of combine_with_content
ContentScore(cr, movie_id) ==
  LET similar_movies == get_similar_movies(cr, movie_id, 1)
  IN IF similar_movies # << >> THEN similar_movies[1].score ELSE 0

\* HybridRecommender.combine_with_content (ends with combined.sort(reverse=True))
combine_with_content(cr, recommendations) ==
  SortDesc([i \in 1..Len(recommendations) |->
              [movie_id |-> recommendations[i].movie_id,
               score |-> RoundDiv(6 * recommendations[i].score
                                  + 4 * ContentScore(cr, recommendations[i].movie_id), 10)]])

\* genres.split("|"): the pieces between the separators, in order
RECURSIVE SplitBar(_, _)
SplitBar(text, piece) ==
  IF text = << >> THEN << piece >>
  ELSE IF Head(text) = "|" THEN << piece >> \o SplitBar(Tail(text), << >>)
  ELSE SplitBar(Tail(text), Append(piece, Head(text)))

\* [g.strip() for g in genres.split("|") if g.strip()]
genre_list(genres) ==
  LET pieces == SplitBar(genres, << >>)
      kept == SelectSeq(pieces, LAMBDA g : Strip(g) # << >>)
  IN [i \in 1..Len(kept) |-> Strip(kept[i])]

\* genre_count.get(genre, 0)
GenreCount(genre_count, genre) == IF genre \in DOMAIN genre_count THEN genre_count[genre] ELSE 0

\* an inner loop that waives the penalty of a genre counted twice or more
RECURSIVE PenaltyLoopWaived(_, _, _)
PenaltyLoopWaived(gl, den, genre_count) ==
  IF gl = << >> THEN [den |-> den, genre_count |-> genre_count]
  ELSE LET count == GenreCount(genre_count, Head(gl))
       IN PenaltyLoopWaived(Tail(gl), IF count >= 2 THEN den ELSE den * (1 + count),
                            [g \in (DOMAIN genre_count) \cup {Head(gl)} |->
                               IF g = Head(gl) THEN count + 1 ELSE genre_count[g]])

\* the inner loop of diversity_rerank over one movie's genre_list:
\* penalty *= 1 / (1 + count); genre_count[genre] = count + 1.
\* The penalty is 1/den; the result is the pair (den, genre_count).
RECURSIVE PenaltyLoop(_, _, _)
PenaltyLoop(gl, den, genre_count) ==
  IF gl = << >> THEN [den |-> den, genre_count |-> genre_count]
  ELSE LET count == GenreCount(genre_count, Head(gl))
       IN PenaltyLoop(Tail(gl), den * (1 + count),
                      [g \in (DOMAIN genre_count) \cup {Head(gl)} |->
                         IF g = Head(gl) THEN count + 1 ELSE genre_count[g]])

\* an outer loop that keeps a candidate the catalog does not have, untitled
RECURSIVE DiversityLoopKeep(_, _, _, _)
DiversityLoopKeep(cr, recommendations, genre_count, final_recs) ==
  IF recommendations = << >> THEN [raised |-> FALSE, recs |-> final_recs]
  ELSE
    LET r == Head(recommendations)
        movie == get_movie_by_id(cr, r.movie_id)
    IN IF movie = << >>
       THEN DiversityLoopKeep(cr, Tail(recommendations), genre_count,
                              Append(final_recs, [movie_id |-> r.movie_id, title |-> "Unknown",
                                                  score |-> r.score]))
       ELSE IF movie[1].genres = NaN THEN [raised |-> TRUE, recs |-> << >>]
       ELSE LET pl == PenaltyLoop(genre_list(movie[1].genres), 1, genre_count)
            IN DiversityLoopKeep(cr, Tail(recommendations), pl.genre_count,
                                 Append(final_recs,
                                        [movie_id |-> r.movie_id, title |-> movie[1].title,
                                         score |-> RoundDiv(r.score, pl.den)]))

\* the outer loop of diversity_rerank; raised = genres.split raised AttributeError
\* (the genres field is NaN, a float), which nothing in the method catches
RECURSIVE DiversityLoop(_, _, _, _)
DiversityLoop(cr, recommendations, genre_count, final_recs) ==
  IF recommendations = << >> THEN [raised |-> FALSE, recs |-> final_recs]
  ELSE
    LET r == Head(recommendations)
        movie == get_movie_by_id(cr, r.movie_id)
    IN IF movie = << >> THEN DiversityLoop(cr, Tail(recommendations), genre_count, final_recs)
       ELSE IF movie[1].genres = NaN THEN [raised |-> TRUE, recs |-> << >>]
       ELSE LET pl == PenaltyLoop(genre_list(movie[1].genres), 1, genre_count)
            IN DiversityLoop(cr, Tail(recommendations), pl.genre_count,
                             Append(final_recs,
                                    [movie_id |-> r.movie_id, title |-> movie[1].title,
                                     score |-> RoundDiv(r.score, pl.den)]))

\* HybridRecommender.diversity_rerank
diversity_rerank(cr, recommendations) ==
  LET d == DiversityLoop(cr, recommendations, [g \in {} |-> 0], << >>)
  IN [raised |-> d.raised, recs |-> SortDesc(d.recs)]

\* the title lookup of apply_rl_feedback
TitleOf(cr, movie_id) ==
  LET movie == get_movie_by_id(cr, movie_id)
  IN IF movie # << >> THEN movie[1].title ELSE "Unknown"

\* a cold-start return whose scores went through the blend of adjust_recommendations
TrendingBlended(cr, top_n) ==
  LET t == get_similar_movies(cr, movies[1], top_n)
  IN [i \in 1..Len(t) |-> [t[i] EXCEPT !.score = AdjustedScore(@, 0)]]

\* the cold-start return of hybrid_recommendation
Trending(cr, top_n) == get_similar_movies(cr, movies[1], top_n)

\* steps 1-4 of hybrid_recommendation
DiversityRecs(svd, cr, user_id, top_n, raises) ==
  diversity_rerank(cr,
    combine_with_content(cr,
      apply_temporal_boost(cr,
        get_cf_recommendations(svd, user_id, top_n, raises))))

\* a threshold test that also sends a user with exactly five ratings to cold start
IsColdStartInclusive(user_id) == RatingCount(user_id) <= ColdStartThreshold

\* if user_ratings_count < 5
IsColdStart(user_id) == RatingCount(user_id) < ColdStartThreshold

\* a return without the final slice
TopNKeepAll(final_recs, top_n) == final_recs

\* return final_recs[:top_n]
TopN(final_recs, top_n) == Take(final_recs, top_n)

\* recs = [(movie_id, score) for movie_id, _, score in recommendations]
Pairs(recommendations) ==
  [i \in 1..Len(recommendations) |->
     [movie_id |-> recommendations[i].movie_id, score |-> recommendations[i].score]]

\* updated_with_title of apply_rl_feedback
WithTitles(cr, updated) ==
  [i \in 1..Len(updated) |->
     [movie_id |-> updated[i].movie_id, title |-> TitleOf(cr, updated[i].movie_id),
      score |-> updated[i].score]]

\* ------------------------------------------------------------------- state
\* stream_processor.py: MAX_RETRIES
MAX_RETRIES == 3

VARIABLES
  svd_model,            \* HybridRecommender.svd_model
  content_recommender,  \* HybridRecommender.content_recommender
  rl_qvalues,           \* the table rl_qvalues of rl_agent.db: (user_id, movie_id) -> q_value
  pc,                   \* per process: "idle", "adjust", "raised", "agent", "done"
  req,                  \* the recommendation call in progress and the branch it took
  q_values,             \* per process: RLAgent.q_values of the agent it holds
  work,                 \* the locals of adjust_recommendations
  result,               \* what the recommendation call returned
  nreq,                 \* recommendation requests started so far
  nfaults,              \* failures injected so far
  nfeedback,            \* feedback calls made so far
  returned,             \* per process, per key: the last update_q_value call of its agent
  fed,                  \* the pairs update_q_value was called for with a caller's reward
  epoch                 \* history, kept when epoch.on: the store when the running
                        \* operations began, and those operations

vars == << svd_model, content_recommender, rl_qvalues, pc, req, q_values, work, result,
           nreq, nfaults, nfeedback, returned, fed, epoch >>

NoReq == [user_id |-> 0, top_n |-> 0, raises |-> {}, path |-> "none", stages |-> {}, rl |-> "none"]
NoWork == [recs |-> << >>, next_max |-> 0, updated |-> << >>]
NoResult == [kind |-> "none", items |-> << >>]
NoReturned == [k \in {} |-> [from |-> 0, q |-> 0, saved |-> TRUE]]

InitBase ==
  /\ \E hr \in Recommenders : svd_model = hr[1] /\ content_recommender = hr[2]
  /\ rl_qvalues = EmptyQ
  /\ pc = [p \in Procs |-> "idle"]
  /\ req = NoReq
  /\ q_values = [p \in Procs |-> EmptyQ]
  /\ work = NoWork
  /\ result = NoResult
  /\ nreq = 0
  /\ nfaults = 0
  /\ nfeedback = 0
  /\ returned = [p \in Procs |-> NoReturned]
  /\ fed = {}

Init == InitBase /\ epoch = [on |-> FALSE, db0 |-> EmptyQ, ops |-> << >>]

\* the same system with the history of operations recorded
InitHist == InitBase /\ epoch = [on |-> TRUE, db0 |-> EmptyQ, ops |-> << >>]

\* no process holds an agent
Quiescent == \A p \in Procs : pc[p] \notin {"adjust", "agent"}

\* history: an operation that opens an agent starts
StartOp(p, kind, user_id, recs, clean) ==
  LET op == [p |-> p, kind |-> kind, user_id |-> user_id, recs |-> recs,
             calls |-> << >>, clean |-> clean]
  IN IF ~epoch.on THEN epoch
     ELSE IF Quiescent THEN [on |-> TRUE, db0 |-> rl_qvalues, ops |-> << op >>]
     ELSE [epoch EXCEPT !.ops = Append(@, op)]

\* history: the running operation of p made update_q_value calls
NoteCall(p, calls, ok) ==
  LET mine == {i \in 1..Len(epoch.ops) : epoch.ops[i].p = p}
      last == CHOOSE i \in mine : \A j \in mine : j <= i
  IN IF ~epoch.on THEN epoch
     ELSE [epoch EXCEPT !.ops = [i \in 1..Len(epoch.ops) |->
                                   IF i = last
                                   THEN [epoch.ops[i] EXCEPT !.calls = @ \o calls,
                                                             !.clean = @ /\ ok]
                                   ELSE epoch.ops[i]]]

\* history: an agent that made no update_q_value call leaves no trace
DropIdle(p) ==
  IF ~epoch.on THEN epoch
  ELSE [epoch EXCEPT !.ops = SelectSeq(@, LAMBDA o : o.p # p \/ o.calls # << >>)]

\* a failure is injected only while the budget lasts
Fault(ok) == /\ (~ok => nfaults < MaxFaults)
             /\ nfaults' = IF ok THEN nfaults ELSE nfaults + 1

\* an update that keeps the new value in memory only when the write succeeded
UpdateStepRollback(p, k, reward, next_max, ok) ==
  LET current_q == get_q_value(q_values[p], k)
      new_q == NewQ(current_q, reward, next_max)
  IN /\ q_values' = [q_values EXCEPT ![p] = IF ok THEN SetQ(@, k, new_q) ELSE @]
     /\ rl_qvalues' = save_q_value(rl_qvalues, k, new_q, ok)
     /\ returned' = [returned EXCEPT ![p] =
                       [x \in (DOMAIN @) \cup {k} |->
                          IF x = k THEN [from |-> current_q, q |-> new_q, saved |-> ok] ELSE @[x]]]

\* RLAgent.update_q_value on the agent of process p
UpdateStep(p, k, reward, next_max, ok) ==
  LET current_q == get_q_value(q_values[p], k)
      new_q == NewQ(current_q, reward, next_max)
  IN /\ q_values' = [q_values EXCEPT ![p] = SetQ(@, k, new_q)]
     /\ rl_qvalues' = save_q_value(rl_qvalues, k, new_q, ok)
     /\ returned' = [returned EXCEPT ![p] =
                       [x \in (DOMAIN @) \cup {k} |->
                          IF x = k THEN [from |-> current_q, q |-> new_q, saved |-> ok] ELSE @[x]]]

\* HybridRecommender.hybrid_recommendation, up to and including RLAgent() in
\* apply_rl_feedback.  fault: what fails during this call, "none",
\* "predict" (svd_model.predict raises for movie 2), "connect" (sqlite3.connect
\* or _create_table raises) or "load" (the SELECT of _load_q_values raises).
HybridRecommendation(user_id, top_n, fault) ==
  LET p == Requester
      cr == content_recommender
  IN
  /\ pc[p] \in {"idle", "done"}
  /\ nreq < MaxRequests
  /\ nreq' = nreq + 1
  /\ Fault(fault = "none")
  /\ UNCHANGED << svd_model, content_recommender, rl_qvalues, nfeedback, returned, fed >>
  /\ IF IsColdStart(user_id)
     THEN /\ fault = "none"
          /\ req' = [user_id |-> user_id, top_n |-> top_n, raises |-> {}, path |-> "cold",
                     stages |-> {}, rl |-> "none"]
          /\ result' = [kind |-> "list", items |-> Trending(cr, top_n)]
          /\ pc' = [pc EXCEPT ![p] = "done"]
          /\ UNCHANGED << q_values, work, epoch >>
     ELSE
       LET raises == IF fault = "predict" THEN {2} ELSE {}
           d == DiversityRecs(svd_model, cr, user_id, top_n, raises)
           r == [user_id |-> user_id, top_n |-> top_n, raises |-> raises, path |-> "full",
                 stages |-> {"cf", "boost", "fusion", "diversity"}, rl |-> "none"]
       IN /\ (fault = "predict" => svd_model.loaded)
          /\ IF d.raised
             THEN /\ fault = "none"
                  /\ req' = r
                  /\ result' = NoResult
                  /\ pc' = [pc EXCEPT ![p] = "raised"]
                  /\ UNCHANGED << q_values, work, epoch >>
             ELSE IF fault = "connect"
             THEN /\ req' = [r EXCEPT !.stages = @ \cup {"rl"}, !.rl = "failed"]
                  /\ result' = [kind |-> "list", items |-> TopN(d.recs, top_n)]
                  /\ pc' = [pc EXCEPT ![p] = "done"]
                  /\ UNCHANGED << q_values, work, epoch >>
             ELSE LET q == load_q_values(rl_qvalues, fault # "load")
                      recs == Pairs(d.recs)
                  IN /\ req' = [r EXCEPT !.stages = @ \cup {"rl"}, !.rl = "ok"]
                     /\ result' = NoResult
                     /\ q_values' = [q_values EXCEPT ![p] = q]
                     /\ work' = [recs |-> recs, next_max |-> MaxQ(q, user_id, recs),
                                 updated |-> << >>]
                     /\ pc' = [pc EXCEPT ![p] = "adjust"]
                     /\ epoch' = StartOp(p, "recommend", user_id, recs, fault # "load")

\* get_recommendations_endpoint: hybrid_recommendation raised; the except
\* clause answers with HTTPException(status_code=500)
EndpointExcept ==
  /\ pc[Requester] = "raised"
  /\ pc' = [pc EXCEPT ![Requester] = "done"]
  /\ result' = [kind |-> "error", items |-> << >>]
  /\ UNCHANGED << svd_model, content_recommender, rl_qvalues, req, q_values, work, nreq,
                  nfaults, nfeedback, returned, fed, epoch >>

\* get_recommendations: hybrid_recommendation raised; the except clause returns []
GetRecommendationsExcept ==
  /\ pc[Requester] = "raised"
  /\ pc' = [pc EXCEPT ![Requester] = "done"]
  /\ result' = [kind |-> "list", items |-> << >>]
  /\ UNCHANGED << svd_model, content_recommender, rl_qvalues, req, q_values, work, nreq,
                  nfaults, nfeedback, returned, fed, epoch >>

\* one iteration of the loop of RLAgent.adjust_recommendations
\* (reward = feedback.get(movie_id, 0), and apply_rl_feedback passes 0 for every movie)
AdjustStep(ok) ==
  LET p == Requester IN
  /\ pc[p] = "adjust"
  /\ work.recs # << >>
  /\ LET r == Head(work.recs)
         k == << req.user_id, r.movie_id >>
         new_q == NewQ(get_q_value(q_values[p], k), 0, work.next_max)
     IN /\ UpdateStep(p, k, 0, work.next_max, ok)
        /\ work' = [work EXCEPT !.recs = Tail(@),
                                !.updated = Append(@, [movie_id |-> r.movie_id,
                                                       score |-> AdjustedScore(r.score, new_q)])]
        /\ epoch' = NoteCall(p, << [key |-> k, reward |-> 0, next_max |-> work.next_max] >>, ok)
  /\ Fault(ok)
  /\ UNCHANGED << svd_model, content_recommender, pc, req, result, nreq, nfeedback, fed >>

\* the end of adjust_recommendations, of apply_rl_feedback and of hybrid_recommendation
AdjustReturn ==
  LET p == Requester IN
  /\ pc[p] = "adjust"
  /\ work.recs = << >>
  /\ result' = [kind |-> "list",
                items |-> TopN(WithTitles(content_recommender, SortDesc(work.updated)),
                               req.top_n)]
  /\ pc' = [pc EXCEPT ![p] = "done"]
  /\ q_values' = [q_values EXCEPT ![p] = EmptyQ]
  /\ work' = NoWork
  /\ returned' = [returned EXCEPT ![p] = NoReturned]
  /\ UNCHANGED << svd_model, content_recommender, rl_qvalues, req, nreq, nfaults, nfeedback,
                  fed, epoch >>

\* the serving process dies inside adjust_recommendations: its memory is lost,
\* the database file stays
Crash ==
  LET p == Requester IN
  /\ pc[p] = "adjust"
  /\ pc' = [pc EXCEPT ![p] = "idle"]
  /\ req' = NoReq
  /\ q_values' = [q_values EXCEPT ![p] = EmptyQ]
  /\ work' = NoWork
  /\ returned' = [returned EXCEPT ![p] = NoReturned]
  /\ epoch' = NoteCall(p, << >>, FALSE)
  /\ UNCHANGED << svd_model, content_recommender, rl_qvalues, result, nreq, nfaults,
                  nfeedback, fed >>

\* RLAgent.__init__ by a caller that records feedback
AgentInit(load_ok) ==
  LET p == Recorder IN
  /\ pc[p] = "idle"
  /\ nfeedback < MaxFeedback
  /\ pc' = [pc EXCEPT ![p] = "agent"]
  /\ q_values' = [q_values EXCEPT ![p] = load_q_values(rl_qvalues, load_ok)]
  /\ epoch' = StartOp(p, "agent", 0, << >>, load_ok)
  /\ Fault(load_ok)
  /\ UNCHANGED << svd_model, content_recommender, rl_qvalues, req, work, result, nreq,
                  nfeedback, returned, fed >>

\* RLAgent.update_q_value(user_id, movie_id, reward) with the default next_max = 0.0
UpdateQValue(user_id, movie_id, reward, ok) ==
  LET p == Recorder IN
  /\ pc[p] = "agent"
  /\ nfeedback < MaxFeedback
  /\ nfeedback' = nfeedback + 1
  /\ UpdateStep(p, << user_id, movie_id >>, reward, 0, ok)
  /\ Fault(ok)
  /\ fed' = fed \cup {<< user_id, movie_id >>}
  /\ epoch' = NoteCall(p, << [key |-> << user_id, movie_id >>, reward |-> reward,
                            next_max |-> 0] >>, ok)
  /\ UNCHANGED << svd_model, content_recommender, pc, req, work, result, nreq >>

\* RLAgent.close
AgentClose ==
  LET p == Recorder IN
  /\ pc[p] = "agent"
  /\ pc' = [pc EXCEPT ![p] = "idle"]
  /\ q_values' = [q_values EXCEPT ![p] = EmptyQ]
  /\ returned' = [returned EXCEPT ![p] = NoReturned]
  /\ epoch' = DropIdle(p)
  /\ UNCHANGED << svd_model, content_recommender, rl_qvalues, req, work, result, nreq,
                  nfaults, nfeedback, fed >>

Next ==
  \/ \E user_id \in Users, top_n \in 0..MaxTopN, fault \in {"none", "predict", "connect", "load"} :
       HybridRecommendation(user_id, top_n, fault)
  \/ EndpointExcept
  \/ GetRecommendationsExcept
  \/ \E ok \in BOOLEAN : AdjustStep(ok)
  \/ AdjustReturn
  \/ Crash
  \/ \E load_ok \in BOOLEAN : AgentInit(load_ok)
  \/ \E f \in Feedbacks, ok \in BOOLEAN : UpdateQValue(f[1], f[2], f[3], ok)
  \/ AgentClose

Spec == Init /\ [][Next]_vars

SpecHist == InitHist /\ [][Next]_vars

\* ------------------------------------------- the functions called on their own
\* A caller (a test, a script, another module) calls one function with given
\* arguments: req is the call, result what it returned.
InitFn ==
  /\ svd_model = SvdLoaded
  /\ content_recommender = [movies |-> CatalogA, computed |-> TRUE, cosine_sim |-> SimA]
  /\ rl_qvalues = EmptyQ
  /\ pc = [p \in Procs |-> "idle"]
  /\ req = [fn |-> "none"]
  /\ q_values = [p \in Procs |-> EmptyQ]
  /\ work = NoWork
  /\ result = [fn |-> "none"]
  /\ nreq = 0
  /\ nfaults = 0
  /\ nfeedback = 0
  /\ returned = [p \in Procs |-> NoReturned]
  /\ fed = {}
  /\ epoch = [on |-> FALSE, db0 |-> EmptyQ, ops |-> << >>]

\* one call per run: nothing has been called yet
FnIdle == req.fn = "none"

\* a call touches nothing else
FnFrame ==
  /\ FnIdle
  /\ UNCHANGED << svd_model, content_recommender, rl_qvalues, pc, q_values, work, nreq, nfaults,
                  nfeedback, returned, fed, epoch >>

\* the learning rates and discount factors an agent is constructed with
\* (numerator, denominator): the defaults, those of __main__, and 0.1 with 0.9
Rates == {<< << LrNum, LrDen >>, << DfNum, DfDen >> >>,
          << << 5, 100 >>, << 95, 100 >> >>,
          << << 1, 10 >>, << 9, 10 >> >>}

\* the values a key may have before a call (grid units)
QBefore == {0, Unit \div 2, Unit, 2 * Unit, -Unit, 37 * (Unit \div 100)}

\* the agent memories a call may find
QTables ==
  { EmptyQ,
    [k \in {<< 2, 1 >>} |-> Unit],
    [k \in {<< 2, 1 >>, << 2, 2 >>} |-> IF k[2] = 1 THEN -Unit ELSE -(Unit \div 2)],
    [k \in {<< 2, 3 >>, << 1, 1 >>} |-> IF k[1] = 2 THEN 2 * Unit ELSE 5 * Unit] }

\* candidate lists (movie_id, score): every list of distinct movies
RecLists ==
  {s \in UNION {[1..n -> MovieIds] : n \in 0..3} :
     \A i, j \in 1..Len(s) : i # j => s[i] # s[j]}

ScoreOf(movie_id) == (6 - movie_id) * Unit

\* feedback dictionaries of a batch
FeedbackDicts ==
  { [m \in {} |-> 0],
    [m \in {1} |-> 1],
    [m \in {2} |-> -1],
    [m \in {1, 2} |-> IF m = 1 THEN 1 ELSE -1] }

\* RLAgent(lr, df).update_q_value(user_id, movie_id, reward, next_max) on an agent
\* whose memory holds current_q for the key
CallUpdateQValue(rates, current_q, reward, next_max) ==
  /\ FnIdle
  /\ req' = [fn |-> "update_q_value", rates |-> rates, current_q |-> current_q,
             reward |-> reward, next_max |-> next_max]
  /\ result' = [fn |-> "update_q_value",
                value |-> NewQWith(rates[1][1], rates[1][2], rates[2][1], rates[2][2],
                                   current_q, reward, next_max)]
  /\ FnFrame

\* RLAgent().adjust_recommendations(user_id, recommendations, feedback)
CallAdjustRecommendations(q, user_id, movie_ids, feedback) ==
  LET recs == [i \in 1..Len(movie_ids) |-> [movie_id |-> movie_ids[i], score |-> ScoreOf(movie_ids[i])]]
      a == adjust_recommendations(q, user_id, recs, feedback)
  IN /\ FnIdle
     /\ req' = [fn |-> "adjust_recommendations", q_values |-> q, user_id |-> user_id,
                recs |-> recs, feedback |-> feedback]
     /\ result' = [fn |-> "adjust_recommendations", q_values |-> a.q_values,
                   updated |-> a.updated]
     /\ FnFrame

\* the content recommenders a stage is run with
StageRecommenders ==
  { [movies |-> CatalogA, computed |-> TRUE, cosine_sim |-> SimA],
    [movies |-> CatalogC, computed |-> TRUE, cosine_sim |-> SimA] }

\* combined scores of the candidates: 10.0, 10.0, 9.0
CombinedOf(movie_id) == IF movie_id = 3 THEN 9 * Unit ELSE 10 * Unit

\* HybridRecommender.diversity_rerank(recommendations)
CallDiversityRerank(cr, movie_ids) ==
  LET recs == [i \in 1..Len(movie_ids) |->
                 [movie_id |-> movie_ids[i], score |-> CombinedOf(movie_ids[i])]]
      d == diversity_rerank(cr, recs)
  IN /\ FnIdle
     /\ req' = [fn |-> "diversity_rerank", cr |-> cr, recs |-> recs]
     /\ result' = [fn |-> "diversity_rerank", raised |-> d.raised, recs |-> d.recs]
     /\ FnFrame

\* HybridRecommender.get_cf_recommendations(user_id, n) while svd_model.predict
\* raises for the movies of raises
CallGetCf(user_id, n, raises) ==
  /\ FnIdle
  /\ req' = [fn |-> "get_cf_recommendations", user_id |-> user_id, n |-> n, raises |-> raises]
  /\ result' = [fn |-> "get_cf_recommendations",
                value |-> get_cf_recommendations(svd_model, user_id, n, raises)]
  /\ FnFrame

\* ---------------------------------------------------------------- fairness
\* data/u.data as read by load_ratings: the movieId column, one entry per row
\* (an unreadable file gives the empty frame)
RatingsR == [i \in 1..10 |-> 2]
RatingsF == [i \in 1..60 |-> IF i <= 10 THEN 1 ELSE IF i <= 30 THEN 2 ELSE 3]
RatingsG == << 1, 3, 1, 1 >>
RatingTables == {<< >>, RatingsR, RatingsF, RatingsG}

\* ratings.groupby("movieId").size(): the movies that have ratings, and their counts
PopularityIndex(rt) == {rt[i] : i \in 1..Len(rt)}
PopularitySize(rt, movie) == Cardinality({i \in 1..Len(rt) : rt[i] = movie})

RECURSIVE SumOver(_, _)
SumOver(f, S) == IF S = {} THEN 0 ELSE LET x == CHOOSE y \in S : TRUE IN f[x] + SumOver(f, S \ {x})

\* movie_popularity.max()
MaxPopularity(rt) ==
  LET idx == PopularityIndex(rt)
  IN PopularitySize(rt, CHOOSE m \in idx : \A o \in idx : PopularitySize(rt, m) >= PopularitySize(rt, o))

\* the keys of the dict adjusted_scores, in insertion order
RECURSIVE DictKeys(_, _)
DictKeys(recommendations, seen) ==
  IF recommendations = << >> THEN << >>
  ELSE IF Head(recommendations) \in seen THEN DictKeys(Tail(recommendations), seen)
  ELSE << Head(recommendations) >> \o DictKeys(Tail(recommendations), seen \cup {Head(recommendations)})

\* adjusted_score = alpha * original_score - beta * (pop / max_popularity), times the
\* positive number alpha_den * beta_den * max_popularity (alpha, beta are fractions
\* << numerator, denominator >>), which keeps the order and needs no rounding
AdjustedFair(movie, predicted_scores, alpha, beta, rt) ==
  LET pop == IF movie \in PopularityIndex(rt) THEN PopularitySize(rt, movie) ELSE 0
      original_score == IF movie \in DOMAIN predicted_scores THEN predicted_scores[movie] ELSE 0
  IN alpha[1] * beta[2] * original_score * MaxPopularity(rt) - beta[1] * alpha[2] * pop * Unit

\* a re-ranker that returns its input
re_rank_keep(recommendations, predicted_scores, alpha, beta, rt) == recommendations

\* fairness_re_ranker.re_rank_fair, rt being what load_ratings() returns
re_rank_fair(recommendations, predicted_scores, alpha, beta, rt) ==
  IF rt = << >> THEN recommendations
  ELSE LET keys == DictKeys(recommendations, {})
           scored == [i \in 1..Len(keys) |->
                        [movie_id |-> keys[i],
                         score |-> AdjustedFair(keys[i], predicted_scores, alpha, beta, rt)]]
           re_ranked == SortDesc(scored)
       IN [i \in 1..Len(re_ranked) |-> re_ranked[i].movie_id]

\* a bias score that averages over every recommended movie, with or without data
popularity_bias_all(recommendations, rt) ==
  LET idx == PopularityIndex(rt)
      pop == [m \in idx |-> PopularitySize(rt, m)]
      rec_sum == SumOver([i \in 1..Len(recommendations) |->
                           IF recommendations[i] \in idx THEN pop[recommendations[i]] ELSE 0],
                         1..Len(recommendations))
  IN IF recommendations = << >> \/ idx = {} THEN 0
     ELSE RoundDiv(rec_sum * Cardinality(idx) * Unit, Len(recommendations) * SumOver(pop, idx))

\* a score that divides the total, not the mean, of the recommended movies' counts
popularity_bias_sum(recommendations, rt) ==
  LET idx == PopularityIndex(rt)
      pop == [m \in idx |-> PopularitySize(rt, m)]
      rec == {i \in 1..Len(recommendations) : recommendations[i] \in idx}
      rec_sum == SumOver([i \in rec |-> pop[recommendations[i]]], rec)
  IN IF rec = {} THEN 0
     ELSE RoundDiv(rec_sum * Cardinality(idx) * Unit, SumOver(pop, idx))

\* fairness_checks.popularity_bias_score, rt being the module's ratings frame:
\* (mean of the recommended movies' counts) / (mean of all counts), on the grid
popularity_bias_score(recommendations, rt) ==
  LET idx == PopularityIndex(rt)
      pop == [m \in idx |-> PopularitySize(rt, m)]
      rec == {i \in 1..Len(recommendations) : recommendations[i] \in idx}
      rec_sum == SumOver([i \in rec |-> pop[recommendations[i]]], rec)
  IN IF rec = {} THEN 0
     ELSE RoundDiv(rec_sum * Cardinality(idx) * Unit, Cardinality(rec) * SumOver(pop, idx))

\* the recommendation lists passed to the fairness functions
FairLists == RecLists \cup {<< 1, 2, 1 >>, << 2, 2 >>}

\* predicted_scores dictionaries (grid units)
ScoreDicts ==
  { [m \in {} |-> 0],
    [m \in {1, 2} |-> 4 * Unit],
    [m \in {1, 2, 3} |-> IF m = 1 THEN 45 * (Unit \div 10)
                         ELSE IF m = 2 THEN 42 * (Unit \div 10) ELSE 4 * Unit] }

\* (alpha, beta): the defaults 1.0 and 0.5, and two other choices
Weights == {<< << 1, 1 >>, << 1, 2 >> >>, << << 1, 1 >>, << 0, 1 >> >>, << << 1, 2 >>, << 2, 1 >> >>}

CallReRankFair(recommendations, predicted_scores, w, rt) ==
  /\ FnIdle
  /\ req' = [fn |-> "re_rank_fair", recommendations |-> recommendations,
             predicted_scores |-> predicted_scores, alpha |-> w[1], beta |-> w[2],
             ratings |-> rt]
  /\ result' = [fn |-> "re_rank_fair",
                value |-> re_rank_fair(recommendations, predicted_scores, w[1], w[2], rt)]
  /\ FnFrame

CallPopularityBias(recommendations, rt) ==
  /\ FnIdle
  /\ req' = [fn |-> "popularity_bias_score", recommendations |-> recommendations, ratings |-> rt]
  /\ result' = [fn |-> "popularity_bias_score",
                value |-> popularity_bias_score(recommendations, rt)]
  /\ FnFrame

\* ContentBasedRecommender.get_similar_movies(movie_id, top_n) on the recommender
\* of one of the system's configurations; movie 4 is in no catalog
CallGetSimilarMovies(cr, movie_id, top_n) ==
  /\ FnIdle
  /\ req' = [fn |-> "get_similar_movies", cr |-> cr, movie_id |-> movie_id, top_n |-> top_n]
  /\ result' = [fn |-> "get_similar_movies", value |-> get_similar_movies(cr, movie_id, top_n)]
  /\ FnFrame

\* the recommenders the boost stage is called on
BoostRecommenders ==
  { [movies |-> CatalogA, computed |-> TRUE, cosine_sim |-> SimA],
    [movies |-> CatalogB, computed |-> TRUE, cosine_sim |-> SimB],
    [movies |-> CatalogD, computed |-> FALSE, cosine_sim |-> NoSim] }

\* HybridRecommender.apply_temporal_boost(recommendations)
CallApplyTemporalBoost(cr, movie_ids) ==
  LET recs == [i \in 1..Len(movie_ids) |->
                 [movie_id |-> movie_ids[i], score |-> ScoreOf(movie_ids[i])]]
  IN /\ FnIdle
     /\ req' = [fn |-> "apply_temporal_boost", cr |-> cr, recs |-> recs]
     /\ result' = [fn |-> "apply_temporal_boost", value |-> apply_temporal_boost(cr, recs)]
     /\ FnFrame

\* the recommenders the fusion stage is called on
FusionRecommenders ==
  { [movies |-> CatalogA, computed |-> TRUE, cosine_sim |-> SimA],
    [movies |-> CatalogB, computed |-> TRUE, cosine_sim |-> SimB],
    [movies |-> CatalogA, computed |-> FALSE, cosine_sim |-> NoSim] }

\* boosted scores of the candidates: 4.0, 4.1, 4.2
BoostedOf(movie_id) == (39 + movie_id) * (Unit \div 10)

\* HybridRecommender.combine_with_content(recommendations)
CallCombineWithContent(cr, movie_ids) ==
  LET recs == [i \in 1..Len(movie_ids) |->
                 [movie_id |-> movie_ids[i], score |-> BoostedOf(movie_ids[i])]]
  IN /\ FnIdle
     /\ req' = [fn |-> "combine_with_content", cr |-> cr, recs |-> recs]
     /\ result' = [fn |-> "combine_with_content", value |-> combine_with_content(cr, recs)]
     /\ FnFrame

\* the genre lists of the catalogs' movies, and the empty list
GenreLists ==
  {genre_list(cr.movies[i].genres) : cr \in StageRecommenders, i \in 1..3} \cup {<< >>}

\* the dict genre_count when a candidate's turn comes: the genres met so far,
\* each with the number of times it was met
GenreCounts == UNION {[D -> 1..2] : D \in SUBSET {<< "Action" >>, << "Drama" >>}}

\* the pass of the inner loop of diversity_rerank for one candidate
CallPenaltyLoop(gl, genre_count) ==
  /\ FnIdle
  /\ req' = [fn |-> "penalty", genre_list |-> gl, genre_count |-> genre_count]
  /\ result' = [fn |-> "penalty", value |-> PenaltyLoop(gl, 1, genre_count)]
  /\ FnFrame

\* data/u.item as read by fairness_checks.load_movies (an unreadable file leaves
\* the module without a movies frame, and every use of it raises NameError)
MovieTables == {<< >>, CatalogA, CatalogB}

\* fairness_checks.diversity_score: the mean number of distinct pieces of
\* genres.split("|") over the catalog rows of the recommended movies; 0.0 when
\* there is none, and when a genres field is NaN (split raises, caught)
diversity_score(recommendations, cat) ==
  LET rows == {i \in 1..Len(cat) : cat[i].movie_id \in SeqToSet(recommendations)}
      unique == [i \in rows |-> Cardinality(SeqToSet(SplitBar(cat[i].genres, << >>)))]
  IN IF rows = {} THEN 0
     ELSE IF \E i \in rows : cat[i].genres = NaN THEN 0
     ELSE RoundDiv(SumOver(unique, rows) * Unit, Cardinality(rows))

\* the largest c with c * c <= n
Isqrt(n) == CHOOSE c \in 0..200 : c * c <= n /\ (c + 1) * (c + 1) > n

\* fairness_checks.exposure_fairness_score: rec_popularity.std() / mean, the
\* sample standard deviation (NaN for a single value), to 1/100
exposure_fairness_score(recommendations, rt) ==
  LET idx == PopularityIndex(rt)
      pop == [m \in idx |-> PopularitySize(rt, m)]
      rec == {i \in 1..Len(recommendations) : recommendations[i] \in idx}
      n == Cardinality(rec)
      total == SumOver([i \in rec |-> pop[recommendations[i]]], rec)
      squares == SumOver([i \in rec |-> pop[recommendations[i]] * pop[recommendations[i]]], rec)
  IN IF rec = {} THEN [nan |-> FALSE, v |-> 0]
     ELSE IF n = 1 THEN [nan |-> TRUE, v |-> 0]
     ELSE [nan |-> FALSE,
           v |-> Isqrt((n * (n * squares - total * total) * 100 * 100) \div ((n - 1) * total * total))
                 * (Unit \div 100)]

\* round(x, 4) on the grid of 1/100000
Round4(v) == RoundDiv(v, 10) * 10

\* fairness_checks.check_bias_and_fairness
check_bias_and_fairness(recommendations, rt, cat) ==
  LET exposure_fairness == exposure_fairness_score(recommendations, rt)
  IN [popularity_bias |-> Round4(popularity_bias_score(recommendations, rt)),
      diversity |-> Round4(diversity_score(recommendations, cat)),
      exposure_fairness |-> [exposure_fairness EXCEPT !.v = Round4(@)]]

\* a call that empties the caller's list
StateAfterClear(recommendations, rt, cat) ==
  [recommendations |-> << >>, ratings |-> rt, movies |-> cat]

\* the caller's list and the module's frames after a call of
\* check_bias_and_fairness: each metric rebinds its local name to a new list, and
\* groupby, reindex, dropna and the boolean selection return new objects
StateAfterCall(recommendations, rt, cat) ==
  [recommendations |-> recommendations, ratings |-> rt, movies |-> cat]

\* check_bias_and_fairness(recommendations), the first call
CallCheckBias(recommendations, rt, cat) ==
  LET after == StateAfterCall(recommendations, rt, cat)
  IN /\ FnIdle
     /\ req' = [fn |-> "check_bias_and_fairness",
                given |-> [recommendations |-> recommendations, ratings |-> rt, movies |-> cat],
                recommendations |-> after.recommendations, ratings |-> after.ratings,
                movies |-> after.movies]
     /\ result' = [fn |-> "check_bias_and_fairness",
                   values |-> << check_bias_and_fairness(recommendations, rt, cat) >>]
     /\ FnFrame

\* check_bias_and_fairness(recommendations) called again with the same list object
CallCheckBiasAgain ==
  /\ req.fn = "check_bias_and_fairness"
  /\ Len(result.values) < 2
  /\ LET after == StateAfterCall(req.recommendations, req.ratings, req.movies)
     IN req' = [req EXCEPT !.recommendations = after.recommendations,
                           !.ratings = after.ratings, !.movies = after.movies]
  /\ result' = [result EXCEPT !.values =
                  Append(@, check_bias_and_fairness(req.recommendations, req.ratings, req.movies))]
  /\ UNCHANGED << svd_model, content_recommender, rl_qvalues, pc, q_values, work, nreq, nfaults,
                  nfeedback, returned, fed, epoch >>

NextFn ==
  \/ \E hr \in Recommenders, movie_id \in MovieIds \cup {4}, top_n \in 0..3 :
       CallGetSimilarMovies(hr[2], movie_id, top_n)
  \/ \E cr \in BoostRecommenders, movie_ids \in RecLists : CallApplyTemporalBoost(cr, movie_ids)
  \/ \E cr \in FusionRecommenders, movie_ids \in RecLists : CallCombineWithContent(cr, movie_ids)
  \/ \E gl \in GenreLists, genre_count \in GenreCounts : CallPenaltyLoop(gl, genre_count)
  \/ \E recommendations \in FairLists, rt \in RatingTables, cat \in MovieTables :
       CallCheckBias(recommendations, rt, cat)
  \/ CallCheckBiasAgain
  \/ \E user_id \in Users, n \in 0..2, raises \in SUBSET MovieIds : CallGetCf(user_id, n, raises)
  \/ \E recommendations \in FairLists, predicted_scores \in ScoreDicts, w \in Weights,
        rt \in RatingTables : CallReRankFair(recommendations, predicted_scores, w, rt)
  \/ \E recommendations \in FairLists, rt \in RatingTables :
       CallPopularityBias(recommendations, rt)
  \/ \E cr \in StageRecommenders, movie_ids \in RecLists : CallDiversityRerank(cr, movie_ids)
  \/ \E rates \in Rates, current_q \in QBefore, reward \in {-1, 0, 1}, next_max \in QBefore :
       CallUpdateQValue(rates, current_q, reward, next_max)
  \/ \E q \in QTables, movie_ids \in RecLists, feedback \in FeedbackDicts :
       CallAdjustRecommendations(q, 2, movie_ids, feedback)

SpecFn == InitFn /\ [][NextFn]_vars

\* ------------------------------------------------------- the stream processor
\* StreamProcessor.process_stream with its thread pool.  pc.stream is the position
\* of process_stream, req the consumer (None when _initialize_consumer failed),
\* work the tasks submitted to the executor, in order, result how consuming stopped.
\* A message value is a JSON value: a dict, or anything else (a list, a number),
\* on which message.get raises AttributeError.
MessageKinds == {"dict", "other"}

InitStream ==
  /\ svd_model = SvdLoaded
  /\ content_recommender = [movies |-> CatalogA, computed |-> TRUE, cosine_sim |-> SimA]
  /\ rl_qvalues = EmptyQ
  /\ \E consumer \in {"ready", "none"} : req = [fn |-> "process_stream", consumer |-> consumer]
  /\ pc = [stream |-> "start"]
  /\ q_values = [p \in Procs |-> EmptyQ]
  /\ work = << >>
  /\ result = [fn |-> "process_stream", stopped |-> "no"]
  /\ nreq = 0
  /\ nfaults = 0
  /\ nfeedback = 0
  /\ returned = [p \in Procs |-> NoReturned]
  /\ fed = {}
  /\ epoch = [on |-> FALSE, db0 |-> EmptyQ, ops |-> << >>]

StreamFrame ==
  UNCHANGED << svd_model, content_recommender, rl_qvalues, q_values, nreq, nfaults, nfeedback,
               returned, fed, epoch >>

\* a loop test that allows one attempt more
RetryOnceMore(attempt) == attempt <= MAX_RETRIES

\* while attempt < MAX_RETRIES
Retry(attempt) == attempt < MAX_RETRIES

\* a shutdown that does not wait: executor.shutdown(wait=False)
ShutdownNoWait(tasks) == TRUE

\* executor.shutdown(wait=True) returns when every submitted task has finished
ShutdownWait(tasks) == \A t \in 1..Len(tasks) : tasks[t].state = "done"

\* a wait that ends with the first completed future
AsCompletedFirst(tasks) == \E t \in 1..Len(tasks) : tasks[t].state = "done"

\* for f in as_completed(futures) has yielded every future of the list: each one
\* has completed
AsCompleted(tasks) == \A t \in 1..Len(tasks) : tasks[t].state = "done"

\* handle_message: message.get raises on a value that is no dict
HandleRaises(kind, fails) == kind = "other" \/ fails

\* process_stream: if self.consumer is None: return; else futures = []
StreamStart ==
  /\ pc.stream = "start"
  /\ pc' = [stream |-> IF req.consumer = "none" THEN "returned" ELSE "consume"]
  /\ result' = IF req.consumer = "none" THEN [result EXCEPT !.stopped = "no consumer"] ELSE result
  /\ UNCHANGED << req, work >>
  /\ StreamFrame

\* for message in self.consumer: future = self.executor.submit(self.process_message, msg_value)
Consume(kind) ==
  /\ pc.stream = "consume"
  /\ Len(work) < MaxMessages
  /\ work' = Append(work, [msg |-> kind, attempt |-> 0, calls |-> 0, succeeded |-> 0,
                           state |-> "running", outcome |-> "none", late |-> FALSE])
  /\ pc' = [stream |-> "wait"]
  /\ UNCHANGED << req, result >>
  /\ StreamFrame

\* one pass of the while loop of process_message in a worker thread: handle_message
\* returns (return), or raises (attempt += 1, logged, sleep); fails says that
\* handle_message raises for a reason other than the message's type
ProcessMessageAttempt(t, fails) ==
  /\ t \in 1..Len(work)
  /\ work[t].state = "running"
  /\ Retry(work[t].attempt)
  /\ work' = [work EXCEPT ![t] =
                 IF HandleRaises(@.msg, fails)
                 THEN [@ EXCEPT !.attempt = @ + 1, !.calls = @ + 1]
                 ELSE [@ EXCEPT !.calls = @ + 1, !.succeeded = @ + 1,
                                !.state = "done", !.outcome = "handled"]]
  /\ UNCHANGED << pc, req, result >>
  /\ StreamFrame

\* the while loop of process_message ends: "Max retry attempts reached. Skipping message."
ProcessMessageGiveUp(t) ==
  /\ t \in 1..Len(work)
  /\ work[t].state = "running"
  /\ ~Retry(work[t].attempt)
  /\ work' = [work EXCEPT ![t] = [@ EXCEPT !.state = "done", !.outcome = "dropped"]]
  /\ UNCHANGED << pc, req, result >>
  /\ StreamFrame

\* for f in as_completed(futures): the loop ends when every future has completed
AsCompletedEnds ==
  /\ pc.stream = "wait"
  /\ AsCompleted(work)
  /\ pc' = [stream |-> "consume"]
  /\ UNCHANGED << req, work, result >>
  /\ StreamFrame

\* the iteration over the consumer ends, or raises (except Exception: logged);
\* either way the finally clause is next
ConsumerStops(how) ==
  /\ pc.stream = "consume"
  /\ pc' = [stream |-> "shutdown"]
  /\ result' = [result EXCEPT !.stopped = how]
  /\ UNCHANGED << req, work >>
  /\ StreamFrame

\* the main thread is interrupted (KeyboardInterrupt) while it waits in
\* as_completed; the finally clause is next, with tasks still running
Interrupted ==
  /\ pc.stream = "wait"
  /\ pc' = [stream |-> "shutdown"]
  /\ result' = [result EXCEPT !.stopped = "interrupted"]
  /\ work' = [t \in 1..Len(work) |-> [work[t] EXCEPT !.late = (work[t].state # "done")]]
  /\ UNCHANGED req
  /\ StreamFrame

\* finally: self.executor.shutdown(wait=True); process_stream returns
ShutdownReturns ==
  /\ pc.stream = "shutdown"
  /\ ShutdownWait(work)
  /\ pc' = [stream |-> "returned"]
  /\ UNCHANGED << req, work, result >>
  /\ StreamFrame

\* the steps of the worker threads
WorkerStep ==
  \E t \in 1..MaxMessages : (\E fails \in BOOLEAN : ProcessMessageAttempt(t, fails)) \/ ProcessMessageGiveUp(t)

NextStream ==
  \/ StreamStart
  \/ \E kind \in MessageKinds : Consume(kind)
  \/ \E t \in 1..MaxMessages, fails \in BOOLEAN : ProcessMessageAttempt(t, fails)
  \/ \E t \in 1..MaxMessages : ProcessMessageGiveUp(t)
  \/ AsCompletedEnds
  \/ \E how \in {"ended", "raised"} : ConsumerStops(how)
  \/ Interrupted
  \/ ShutdownReturns

\* worker threads keep running (time.sleep(1) ends), and so does the main thread
\* once what it waits for has happened
SpecStream ==
  /\ InitStream
  /\ [][NextStream]_vars
  /\ WF_vars(WorkerStep)
  /\ WF_vars(AsCompletedEnds)
  /\ WF_vars(ShutdownReturns)

\* ------------------------------------------------------------ the properties
\* the recommendation call has returned to its caller
Returned == pc[Requester] = "done" /\ req.path # "none"

\* C1: a list returned by hybrid_recommendation has at most top_n entries and its
\* scores never increase from one entry to the next, on the cold-start path, the
\* full pipeline and the path where the RL step failed.
InvC1 ==
  Returned /\ result.kind = "list"
    => Len(result.items) <= req.top_n /\ IsSortedDesc(result.items)

\* C1 case: the full pipeline returned two entries, cut from three candidates,
\* with different scores
WitC1 ==
  /\ Returned /\ req.path = "full" /\ req.rl = "ok"
  /\ req.top_n = 2 /\ Len(result.items) = 2
  /\ result.items[1].score > result.items[2].score
  /\ Len(DiversityRecs(svd_model, content_recommender, req.user_id, req.top_n, req.raises).recs) = 3

\* C2: the cold-start path is taken exactly when the user has fewer than 5 ratings:
\* with 4 ratings the trending list is returned and no pipeline stage has run,
\* with 5 ratings the collaborative, boost, fusion and diversity stages all run.
InvC2 ==
  req.path # "none" =>
    /\ (RatingCount(req.user_id) <= 4 <=> req.path = "cold")
    /\ (RatingCount(req.user_id) >= 5 <=> req.path = "full")
    /\ (req.path = "cold" =>
          /\ req.stages = {}
          /\ pc[Requester] = "done"
          /\ result = [kind |-> "list",
                       items |-> get_similar_movies(content_recommender, movies[1], req.top_n)])
    /\ (req.path = "full" => {"cf", "boost", "fusion", "diversity"} \subseteq req.stages)

\* C2 case: a user with exactly 4 ratings was answered with the trending list
WitC2 ==
  /\ Returned /\ RatingCount(req.user_id) = 4
  /\ req.path = "cold" /\ result.items # << >>

\* neither the predictor nor a CF pass gave candidates for this call
CandidatesUnavailable ==
  \/ ~svd_model.loaded
  \/ req.raises # {}
  \/ DiversityRecs(svd_model, content_recommender, req.user_id, req.top_n, req.raises).recs = << >>

TrendingUnavailable == Trending(content_recommender, req.top_n) = << >>

\* C3: whichever component fails, the recommendation call returns a list and never
\* an error, and the list is empty only when both candidate generation and the
\* trending fallback are unavailable.
ClaimC3 ==
  Returned =>
    /\ result.kind = "list"
    /\ (result.items = << >> /\ req.top_n >= 1 => CandidatesUnavailable /\ TrendingUnavailable)

\* C4: when the predictor is unavailable for a user with at least 5 ratings,
\* candidate generation gives the empty list and the call returns the trending list.
ClaimC4 ==
  Returned /\ req.path = "full" /\ ~svd_model.loaded =>
    /\ get_cf_recommendations(svd_model, req.user_id, req.top_n, req.raises) = << >>
    /\ result = [kind |-> "list", items |-> Trending(content_recommender, req.top_n)]

\* the similarity the provider computed between the first catalog movie and movie_id
ProviderScore(movie_id) ==
  LET cr == content_recommender
      idx == CHOOSE i \in 1..Len(cr.movies) : cr.movies[i].movie_id = movie_id
  IN cr.cosine_sim[1][idx]

\* C5: a cold-start request creates and modifies no Q row, in the agents' memory or
\* in the store, and every entry it returns carries the provider's similarity score.
PropC5 ==
  [][ nreq' = nreq + 1 /\ req'.path = "cold" =>
        /\ rl_qvalues' = rl_qvalues
        /\ q_values' = q_values
        /\ result'.kind = "list"
        /\ \A i \in 1..Len(result'.items) :
             result'.items[i].score = ProviderScore(result'.items[i].movie_id) ]_vars

\* C5 case: a cold-start request returned entries while the store held a Q row
WitC5 ==
  /\ Returned /\ req.path = "cold" /\ Len(result.items) = 2
  /\ rl_qvalues # EmptyQ

\* this step is a call of update_q_value for key k by the agent of process p
UpdateOf(p, k) ==
  /\ k \in DOMAIN returned'[p]
  /\ (k \in DOMAIN returned[p] => returned'[p][k] # returned[p][k])

\* C6: whenever update_q_value returns for a key, the store holds for that key
\* exactly the new Q-value the call computed, so that a crash after the return
\* loses nothing.
ClaimC6 ==
  [][ \A p \in Procs, k \in Keys :
        UpdateOf(p, k) =>
          k \in DOMAIN rl_qvalues' /\ rl_qvalues'[k] = returned'[p][k].q ]_vars

\* the value of key k after the update_q_value calls of the sequence calls that
\* address k are applied, in order, to the value v
RECURSIVE ApplyCalls(_, _, _)
ApplyCalls(v, calls, k) ==
  IF calls = << >> THEN v
  ELSE LET c == Head(calls)
       IN ApplyCalls(IF c.key = k THEN NewQ(v, c.reward, c.next_max) ELSE v, Tail(calls), k)

CallsOn(op, k) == \E i \in 1..Len(op.calls) : op.calls[i].key = k

\* C7: no lost updates: when two overlapping operations, each with an agent of its
\* own over the same store, both updated a key and no write failed, the stored
\* value of the key is the one that applying the updates of one operation and then
\* those of the other gives, in one of the two orders.
ClaimC7 ==
  /\ epoch.on /\ Quiescent /\ Len(epoch.ops) = 2
  /\ epoch.ops[1].p # epoch.ops[2].p
  /\ epoch.ops[1].clean /\ epoch.ops[2].clean
  => \A k \in Keys :
       CallsOn(epoch.ops[1], k) /\ CallsOn(epoch.ops[2], k) =>
         LET v0 == get_q_value(epoch.db0, k)
             a == epoch.ops[1].calls
             b == epoch.ops[2].calls
         IN get_q_value(rl_qvalues, k) \in {ApplyCalls(ApplyCalls(v0, a, k), b, k),
                                            ApplyCalls(ApplyCalls(v0, b, k), a, k)}

\* this step constructs an RLAgent in process p
Constructs(p) == pc[p] \notin {"adjust", "agent"} /\ pc'[p] \in {"adjust", "agent"}

\* C8: after updates whose writes all succeeded, a newly constructed RLAgent
\* returns from get_q_value the value last written for every updated key and 0.0
\* for every key never updated.
ClaimC8 ==
  [][ \A p \in Procs :
        Constructs(p) /\ nfaults = 0 =>
          \A k \in Keys :
            get_q_value(q_values'[p], k) =
              IF k \in DOMAIN rl_qvalues THEN rl_qvalues[k] ELSE 0 ]_vars

ClaimC10 == nfaults = 0 => DOMAIN rl_qvalues = fed

\* C10, as the code has it: rows are never deleted; a row appears only in a call of
\* update_q_value for its pair whose write succeeded, be it recorded feedback or
\* the reward-0 update of a recommended candidate; and such a call leaves the row
\* in the table with the value it computed.
PropC10 ==
  [][ /\ DOMAIN rl_qvalues \subseteq DOMAIN rl_qvalues'
      /\ \A k \in (DOMAIN rl_qvalues') \ (DOMAIN rl_qvalues) :
           \E p \in Procs : UpdateOf(p, k) /\ returned'[p][k].saved
      /\ \A p \in Procs, k \in Keys :
           UpdateOf(p, k) /\ returned'[p][k].saved =>
             k \in DOMAIN rl_qvalues' /\ rl_qvalues'[k] = returned'[p][k].q ]_vars

\* C10 case: the table holds a row for a pair given feedback and a row for a pair
\* that was only recommended
WitC10 ==
  /\ \E k \in DOMAIN rl_qvalues : k \in fed
  /\ \E k \in DOMAIN rl_qvalues : k \notin fed

Abs(x) == IF x >= 0 THEN x ELSE -x

\* the largest of the values the memory q gives the candidates of recs, 0 for no candidate
BatchMax(q, user_id, recs) ==
  IF recs = << >> THEN 0
  ELSE LET vs == {get_q_value(q, << user_id, recs[i].movie_id >>) : i \in 1..Len(recs)}
       IN CHOOSE v \in vs : \A w \in vs : v >= w

\* C11: adjust_recommendations sets, for every candidate of the batch, Q to
\* Q + lr * (reward + discount * next_max - Q), with Q the key's value before the
\* call (0.0 if absent), reward the batch's feedback for the movie (0 if absent) and
\* next_max the largest Q of the candidates as read before any update (0 for no
\* candidate); lr = 0.01, discount = 0.9, to half a grid unit.
InvC11 ==
  req.fn = "adjust_recommendations" =>
    LET next_max == BatchMax(req.q_values, req.user_id, req.recs)
    IN \A i \in 1..Len(req.recs) :
         LET k == << req.user_id, req.recs[i].movie_id >>
             q == IF k \in DOMAIN req.q_values THEN req.q_values[k] ELSE 0
             reward == IF req.recs[i].movie_id \in DOMAIN req.feedback
                       THEN req.feedback[req.recs[i].movie_id] ELSE 0
         IN /\ k \in DOMAIN result.q_values
            /\ 2 * Abs(1000 * (result.q_values[k] - q)
                       - (10 * reward * Unit + 9 * next_max - 10 * q)) <= 1000

\* C11 case: a batch of three candidates, one with feedback +1, one with -1, one
\* with none, whose largest prior Q is positive and belongs to a later candidate
WitC11 ==
  /\ req.fn = "adjust_recommendations"
  /\ Len(req.recs) = 3
  /\ DOMAIN req.feedback = {1, 2}
  /\ BatchMax(req.q_values, req.user_id, req.recs) = 2 * Unit
  /\ req.recs[1].movie_id # 3
  /\ result.q_values[<< 2, 1 >>] # result.q_values[<< 2, 2 >>]

\* the score diversity_rerank gave movie_id in the running request
DiversityScore(movie_id) ==
  LET d == DiversityRecs(svd_model, content_recommender, req.user_id, req.top_n, req.raises).recs
  IN d[CHOOSE j \in 1..Len(d) : d[j].movie_id = movie_id].score

CallC13 ==
  /\ req.fn = "update_q_value"
  /\ req.rates = << << 1, 10 >>, << 9, 10 >> >>
  /\ req.reward = 1
  /\ req.next_max = req.current_q

\* C13: with next_max = Q_before, reward = 1.0, lr = 0.1 and discount = 0.9,
\* update_q_value yields Q_after = Q_before + 0.1.
ClaimC13 == CallC13 => result.value = req.current_q + Unit \div 10

\* C13, as the update formula has it: Q_after = Q_before + 0.1 * (1.0 + 0.9 *
\* Q_before - Q_before) = Q_before + 0.1 - 0.01 * Q_before (to half a grid unit).
InvC13 ==
  CallC13 => 2 * Abs(100 * (result.value - req.current_q) - (10 * Unit - req.current_q)) <= 100

\* C13 case: the call with Q_before = 1.0 returned 1.09
WitC13 == CallC13 /\ req.current_q = Unit /\ result.value = Unit + 9 * (Unit \div 100)

\* score descending, lower movie_id first among equal scores
InIdOrder(s) ==
  \A i \in 1..(Len(s) - 1) :
    \/ s[i].score > s[i + 1].score
    \/ s[i].score = s[i + 1].score /\ s[i].movie_id < s[i + 1].movie_id

\* the candidates of s (distinct movies) in that order
IdOrder(s) ==
  LET n == Len(s)
      perms == {f \in [1..n -> 1..n] : \A i, j \in 1..n : i # j => f[i] # f[j]}
      f == CHOOSE g \in perms : InIdOrder([i \in 1..n |-> s[g[i]]])
  IN [i \in 1..n |-> s[f[i]]]

\* C14: the diversity re-ranker processes the candidates by descending combined
\* score, lower movie_id first among ties, and returns them by descending adjusted
\* score with the same tie-break, so the output is the same for every input order;
\* candidates 1 (10.0, Action), 2 (10.0, Drama), 3 (9.0, Action) give
\* [1, 2, 3] with scores 10.0, 10.0, 4.5.
ClaimC14 ==
  req.fn = "diversity_rerank" =>
    /\ ~result.raised
    /\ result.recs = IdOrder(DiversityLoop(req.cr, IdOrder(req.recs), [g \in {} |-> 0], << >>).recs)
    /\ (req.cr.movies = CatalogC /\ Len(req.recs) = 3 =>
          /\ [i \in 1..3 |-> result.recs[i].movie_id] = << 1, 2, 3 >>
          /\ [i \in 1..3 |-> result.recs[i].score] = << 10 * Unit, 10 * Unit, 45 * (Unit \div 10) >>)

\* the genres of a catalog movie, as a set
GenreSet(cr, movie_id) ==
  LET gl == genre_list(get_movie_by_id(cr, movie_id)[1].genres)
  IN {gl[i] : i \in 1..Len(gl)}

\* C15: in the diversity re-ranker a candidate that shares a genre with a candidate
\* processed before it gets an adjusted score strictly less than its combined
\* score, and a candidate whose genres are disjoint from those of all candidates
\* processed before it keeps its combined score.
ClaimC15 ==
  req.fn = "diversity_rerank" =>
    \A i \in 1..Len(req.recs) :
      LET m == req.recs[i].movie_id
          earlier == UNION {GenreSet(req.cr, req.recs[j].movie_id) : j \in 1..(i - 1)}
          adjusted == result.recs[CHOOSE j \in 1..Len(result.recs) :
                                    result.recs[j].movie_id = m].score
      IN IF GenreSet(req.cr, m) \cap earlier # {}
         THEN adjusted < req.recs[i].score
         ELSE adjusted = req.recs[i].score

\* C16: get_cf_recommendations(user, N) returns the 2N catalog movies with the
\* highest cf_score in descending order (all scored movies if fewer); a predictor
\* error for one movie skips only that movie, the others are still scored and returned.
ClaimC16 ==
  req.fn = "get_cf_recommendations" =>
    LET scored == {m \in MovieIds : m \notin req.raises}
        v == result.value
        got == {v[i].movie_id : i \in 1..Len(v)}
    IN /\ Len(v) = Min(2 * req.n, Cardinality(scored))
       /\ Cardinality(got) = Len(v)
       /\ got \subseteq scored
       /\ IsSortedDesc(v)
       /\ \A i \in 1..Len(v) : v[i].score = svd_model.est[<< req.user_id, v[i].movie_id >>]
       /\ \A m \in scored \ got, i \in 1..Len(v) :
            svd_model.est[<< req.user_id, m >>] <= v[i].score

\* popularity[m]: the number of rating rows of movie m, 0 for a movie without rows
PopOf(m) == Cardinality({i \in 1..Len(req.ratings) : req.ratings[i] = m})

MaxPop == CHOOSE n \in {PopOf(m) : m \in MovieIds} : \A m \in MovieIds : n >= PopOf(m)

\* alpha * score[m] - beta * popularity[m] / max popularity, times
\* alpha_den * beta_den * max popularity
FairScore(m) ==
  LET score == IF m \in DOMAIN req.predicted_scores THEN req.predicted_scores[m] ELSE 0
  IN req.alpha[1] * req.beta[2] * MaxPop * score - req.beta[1] * req.alpha[2] * Unit * PopOf(m)

\* C19: re_rank_fair returns the recommended movie ids by descending
\* adjusted_score = alpha * score[m] - beta * (popularity[m] / max popularity), a
\* movie without popularity data counting 0 and a movie without score 0 (ratings
\* data being available); with alpha = 1.0, beta = 0.5, [1, 2], scores 4.0 and
\* popularity {1: 0, 2: 10} the result is [1, 2].
InvC19 ==
  req.fn = "re_rank_fair" /\ req.ratings # << >> =>
    LET v == result.value
    IN /\ {v[i] : i \in 1..Len(v)} = {req.recommendations[i] : i \in 1..Len(req.recommendations)}
       /\ \A i, j \in 1..Len(v) : i < j => v[i] # v[j] /\ FairScore(v[i]) >= FairScore(v[j])
       /\ (/\ req.recommendations = << 1, 2 >>
           /\ req.predicted_scores = [m \in {1, 2} |-> 4 * Unit]
           /\ req.ratings = RatingsR
           /\ req.alpha = << 1, 1 >> /\ req.beta = << 1, 2 >>
           => v = << 1, 2 >>)

\* C19 case: three movies with scores 4.5, 4.2, 4.0 and popularity 10, 20, 30 were
\* passed in the order [3, 2, 1] with alpha = 0.5, beta = 2 and came back as [1, 2, 3]
WitC19 ==
  /\ req.fn = "re_rank_fair"
  /\ req.recommendations = << 3, 2, 1 >>
  /\ req.ratings = RatingsF
  /\ DOMAIN req.predicted_scores = {1, 2, 3}
  /\ req.beta = << 2, 1 >>
  /\ result.value = << 1, 2, 3 >>

\* the positions of the recommended movies that have popularity data
WithData == {i \in 1..Len(req.recommendations) : PopOf(req.recommendations[i]) > 0}

RECURSIVE PopSum(_)
PopSum(S) == IF S = {} THEN 0 ELSE LET x == CHOOSE y \in S : TRUE IN PopOf(x) + PopSum(S \ {x})

RECURSIVE RecPopSum(_)
RecPopSum(I) ==
  IF I = {} THEN 0
  ELSE LET i == CHOOSE y \in I : TRUE IN PopOf(req.recommendations[i]) + RecPopSum(I \ {i})

\* the movies of the popularity table
Rated == {m \in MovieIds : PopOf(m) > 0}

\* C20: popularity_bias_score(recs) is the mean popularity of the recommended
\* items that have popularity data divided by the mean popularity of all items of
\* the table (to half a grid unit), and 0.0 when no recommended item has data;
\* popularity {1: 10, 2: 20, 3: 30} gives 1.0 for [1, 2, 3].
InvC20 ==
  req.fn = "popularity_bias_score" =>
    /\ (WithData = {} => result.value = 0)
    /\ (WithData # {} =>
          2 * Abs(result.value * Cardinality(WithData) * PopSum(Rated)
                  - RecPopSum(WithData) * Cardinality(Rated) * Unit)
            <= Cardinality(WithData) * PopSum(Rated))
    /\ (req.recommendations = << 1, 2, 3 >> /\ req.ratings = RatingsF => result.value = Unit)

\* C20 case: a list with one movie that has no rating row and one that has 3 of
\* the 4 rows of a table of two movies: 3 / 2 = 1.5
WitC20 ==
  /\ req.fn = "popularity_bias_score"
  /\ req.ratings = RatingsG
  /\ req.recommendations = << 2, 1 >>
  /\ result.value = 15 * (Unit \div 10)

\* what C17 says of one task, whatever its position
TaskBounded(task) ==
  /\ task.calls <= 3
  /\ task.succeeded <= 1
  /\ (task.succeeded = 1 => task.state = "done" /\ task.outcome = "handled")
  /\ (task.outcome = "handled" => task.succeeded = 1)
  /\ (task.outcome = "dropped" => task.calls = 3 /\ task.succeeded = 0 /\ task.state = "done")
  /\ (task.state = "done" => task.outcome \in {"handled", "dropped"})

\* C17: process_message calls handle_message at most 3 times for one message,
\* never again after a call that succeeded, drops the message and returns normally
\* after 3 failed calls, and ends for every message, a malformed one included.
PropC17 ==
  /\ [](\A t \in 1..Len(work) : TaskBounded(work[t]))
  /\ \A t \in 1..MaxMessages : [](Len(work) >= t => <>(Len(work) >= t /\ work[t].state = "done"))

\* C17 case: a dict message handled at the third call, after a malformed message
\* was dropped
WitC17 ==
  /\ Len(work) = 2
  /\ work[1].msg = "other" /\ work[1].outcome = "dropped" /\ work[1].calls = 3
  /\ work[2].msg = "dict" /\ work[2].outcome = "handled" /\ work[2].calls = 3

\* C18: when process_stream has stopped consuming and returns, every task
\* submitted to the pool has run to completion; none is abandoned.
InvC18 ==
  pc.stream = "returned" =>
    \A t \in 1..Len(work) : work[t].state = "done" /\ work[t].outcome \in {"handled", "dropped"}

\* C18 case: process_stream returned after a stop that found a task still running
WitC18 ==
  /\ pc.stream = "returned"
  /\ \E t \in 1..Len(work) : work[t].late /\ work[t].state = "done"

Processed == SelectSeq(req.recs, LAMBDA r : get_movie_by_id(req.cr, r.movie_id) # << >>)

\* n_g: how many of the first i - 1 processed candidates have genre g
EarlierWith(g, i) ==
  Cardinality({j \in 1..(i - 1) : g \in GenreSet(req.cr, Processed[j].movie_id)})

\* the product over g in G of (1 + n_g)
RECURSIVE PenaltyDen(_, _)
PenaltyDen(G, i) ==
  IF G = {} THEN 1
  ELSE LET g == CHOOSE x \in G : TRUE IN (1 + EarlierWith(g, i)) * PenaltyDen(G \ {g}, i)

\* the adjusted score the call returned for movie m
AdjustedOf(m) == result.recs[CHOOSE j \in 1..Len(result.recs) : result.recs[j].movie_id = m].score

\* C23: in the diversity re-ranker the penalty of a candidate with genre set G is
\* the product over g in G of 1 / (1 + n_g), n_g being the number of candidates
\* processed before it that have genre g; its own genres do not count, also when
\* its genre list names a genre twice.
ClaimC23 ==
  req.fn = "diversity_rerank" =>
    /\ ~result.raised
    /\ \A i \in 1..Len(Processed) :
         AdjustedOf(Processed[i].movie_id)
           = RoundDiv(Processed[i].score, PenaltyDen(GenreSet(req.cr, Processed[i].movie_id), i))

\* genre_count c2 has every count of c1 or more
CountsGrow(c1, c2) ==
  \A g \in (DOMAIN c1) \cup (DOMAIN c2) : GenreCount(c2, g) >= GenreCount(c1, g)

\* C24: the penalty 1 / den of a candidate is in (0, 1], and for the same genre
\* list it is not larger when the counts of earlier-processed candidates are larger.
InvC24 ==
  req.fn = "penalty" =>
    /\ result.value.den >= 1
    /\ \A c2 \in GenreCounts :
         CountsGrow(req.genre_count, c2)
           => PenaltyLoop(req.genre_list, 1, c2).den >= result.value.den

\* C24 case: a candidate with genres Drama and Action after two Action candidates
\* and one Drama candidate: penalty 1 / (2 * 3)
WitC24 ==
  /\ req.fn = "penalty"
  /\ req.genre_list = << << "Drama" >>, << "Action" >> >>
  /\ GenreCount(req.genre_count, << "Action" >>) = 2
  /\ GenreCount(req.genre_count, << "Drama" >>) = 1
  /\ result.value.den = 6

\* the similarity of the best match the index returns for movie m, 0 for none
BestMatch(m) ==
  LET similar == get_similar_movies(req.cr, m, 1)
  IN IF similar = << >> THEN 0 ELSE similar[1].score

\* C25: combine_with_content returns the candidates in the order of its input,
\* each with combined_score = 0.6 * boosted_score + 0.4 * content_score (to half
\* a grid unit); it never re-orders them.
ClaimC25 ==
  req.fn = "combine_with_content" =>
    /\ Len(result.value) = Len(req.recs)
    /\ \A i \in 1..Len(req.recs) :
         /\ result.value[i].movie_id = req.recs[i].movie_id
         /\ 2 * Abs(10 * result.value[i].score
                    - (6 * req.recs[i].score + 4 * BestMatch(req.recs[i].movie_id))) <= 10

\* the release year of movie m when the catalog has the movie with a release date
\* whose last four characters are digits, << >> otherwise
YearOf(m) ==
  LET rows == {i \in 1..Len(req.cr.movies) : req.cr.movies[i].movie_id = m}
      date == req.cr.movies[CHOOSE i \in rows : TRUE].release_date
      n == Len(date)
  IN IF rows = {} \/ date = NaN \/ n < 4 THEN << >>
     ELSE IF \E k \in (n - 3)..n : date[k] \notin {"0", "1", "2", "3", "4", "5", "6", "7", "8", "9"}
     THEN << >>
     ELSE << 1000 * DigitVal(date[n - 3]) + 100 * DigitVal(date[n - 2])
             + 10 * DigitVal(date[n - 1]) + DigitVal(date[n]) >>

\* C26: apply_temporal_boost returns every candidate, in input order, with
\* boosted_score = cf_score * 1.1 when the release year parses and
\* current_year - release_year <= 5, and cf_score * 1.0 otherwise: for a movie the
\* catalog does not have, a missing release date and a year that does not parse.
InvC26 ==
  req.fn = "apply_temporal_boost" =>
    /\ Len(result.value) = Len(req.recs)
    /\ \A i \in 1..Len(req.recs) :
         LET y == YearOf(req.recs[i].movie_id)
         IN /\ result.value[i].movie_id = req.recs[i].movie_id
            /\ IF y # << >> /\ 2026 - y[1] <= 5
               THEN 10 * result.value[i].score = 11 * req.recs[i].score
               ELSE result.value[i].score = req.recs[i].score

\* C26 case: a list of a movie released two years ago (boosted) after a movie
\* with no release date and one released long ago (both not boosted)
WitC26 ==
  /\ req.fn = "apply_temporal_boost"
  /\ req.cr.movies = CatalogB
  /\ [i \in 1..Len(req.recs) |-> req.recs[i].movie_id] = << 3, 2, 1 >>
  /\ [i \in 1..Len(result.value) |-> result.value[i].score] = << 3 * Unit, 4 * Unit, 55 * (Unit \div 10) >>

\* the movie ids of the CF candidates of the running request
CfIds ==
  LET cf == get_cf_recommendations(svd_model, req.user_id, req.top_n, req.raises)
  IN {cf[i].movie_id : i \in 1..Len(cf)}

\* the rows the catalog has for movie m
CatalogRows(m) ==
  {i \in 1..Len(content_recommender.movies) : content_recommender.movies[i].movie_id = m}

\* the CF candidates the catalog knows
KnownIds == {m \in CfIds : CatalogRows(m) # {}}

\* the movie ids of a list, and whether each occurs once
IdsOf(s) == {s[i].movie_id : i \in 1..Len(s)}
OnceEach(s) == \A i, j \in 1..Len(s) : i # j => s[i].movie_id # s[j].movie_id

\* C27: in the full pipeline the list before the final truncation holds exactly once
\* every CF candidate the catalog knows and no other movie, so the returned list
\* has min(top_n, number of known candidates) entries, each a (movie_id, title,
\* score) triple; a candidate the catalog does not know is skipped, and is never
\* the cause of an error: the pipeline stops before its last step only over a
\* known candidate's record (one without genres).
InvC27 ==
  req.path = "full" =>
    /\ (pc[Requester] = "adjust" =>
          /\ OnceEach(work.updated \o work.recs)
          /\ IdsOf(work.updated \o work.recs) = KnownIds)
    /\ (Returned /\ req.rl # "none" =>
          /\ result.kind = "list"
          /\ OnceEach(result.items)
          /\ IdsOf(result.items) \subseteq KnownIds
          /\ Len(result.items) = Min(req.top_n, Cardinality(KnownIds))
          /\ \A i \in 1..Len(result.items) :
               DOMAIN result.items[i] = {"movie_id", "title", "score"})
    /\ (pc[Requester] = "raised" \/ req.rl = "none" =>
          \E m \in KnownIds : \E i \in CatalogRows(m) : content_recommender.movies[i].genres = NaN)

\* C27 case: three CF candidates, one of them unknown to a catalog of two records,
\* and the call returned the two known ones
WitC27 ==
  /\ Returned /\ req.path = "full" /\ req.rl = "ok"
  /\ content_recommender.movies = CatalogD
  /\ CfIds = {1, 2, 3}
  /\ IdsOf(result.items) = {1, 2}

\* key x has a row in one of the tables t, t2 only, or different values in them
Changed(t, t2, x) ==
  \/ (x \in DOMAIN t) # (x \in DOMAIN t2)
  \/ x \in DOMAIN t /\ x \in DOMAIN t2 /\ t[x] # t2[x]

\* the movies of the batch adjust_recommendations is working on
BatchIds == IdsOf(work.updated \o work.recs)

\* C28: a call of update_q_value for (user, movie) changes the entry (user, movie)
\* of the agent's memory and of the durable table and no other entry, and the calls
\* adjust_recommendations(user, recs) makes are for entries (user, m) with m in
\* recs: the Q-values of every other user and of every movie outside the batch,
\* and the memory of every other agent, are as before.
PropC28 ==
  [][ /\ \A x \in Keys :
           Changed(rl_qvalues, rl_qvalues', x) => \E p \in Procs : UpdateOf(p, x)
      /\ \A p \in Procs, x \in Keys :
           pc'[p] = pc[p] /\ Changed(q_values[p], q_values'[p], x) => UpdateOf(p, x)
      /\ \A p, p2 \in Procs, k, k2 \in Keys :
           UpdateOf(p, k) /\ UpdateOf(p2, k2) => p = p2 /\ k = k2
      /\ \A k \in Keys :
           UpdateOf(Requester, k) => k[1] = req.user_id /\ k[2] \in BatchIds ]_vars

\* C28 case: the durable table holds a row of user 1 and the memory of the serving
\* agent holds it too, while adjust_recommendations has updated a row of user 2
WitC28 ==
  /\ pc[Requester] = "adjust" /\ work.updated # << >>
  /\ << 1, 2 >> \in DOMAIN rl_qvalues /\ rl_qvalues[<< 1, 2 >>] # 0
  /\ << 1, 2 >> \in DOMAIN q_values[Requester]
  /\ q_values[Requester][<< 1, 2 >>] = rl_qvalues[<< 1, 2 >>]
  /\ \E m \in MovieIds : << 2, m >> \in DOMAIN rl_qvalues

ClaimC30 ==
  req.fn = "get_similar_movies" =>
    /\ Len(result.value) <= req.top_n
    /\ IsSortedDesc(result.value)
    /\ \A i \in 1..Len(result.value) : result.value[i].movie_id # req.movie_id
    /\ ((\A i \in 1..Len(req.cr.movies) : req.cr.movies[i].movie_id # req.movie_id)
          => result.value = << >>)
====
